---- MODULE Spec2Model ----
(***************************************************************************)
(* A model of rackattack.RedisRackAttack (rackattack/rack_attack.go): the  *)
(* access lists, the throttle rules, the Redis counters the rules use and   *)
(* the request pipeline IsThrottled, run by several goroutines.             *)
(*                                                                          *)
(* Go strings are sequences of one-character strings, so that path.Clean,   *)
(* strings.HasPrefix, strings.Replacer, net.ParseIP and net.ParseCIDR are   *)
(* computed and not assumed.  HTTP methods are only compared for equality   *)
(* and stay TLA+ strings.                                                   *)
(***************************************************************************)
EXTENDS Integers, Sequences, FiniteSets, TLC

(***************************************************************************)
(* Strings                                                                  *)
(***************************************************************************)
Digits == <<"0", "1", "2", "3", "4", "5", "6", "7", "8", "9">>

IsDigit(c) == \E d \in 1..10 : Digits[d] = c

DigitVal(c) == (CHOOSE d \in 1..10 : Digits[d] = c) - 1

\* s[from..], the Go slice expression s[from-1:]
Drop(s, from) == SubSeq(s, from, Len(s))

\* strings.HasPrefix(s, prefix)
HasPrefix(s, prefix) ==
    /\ Len(s) >= Len(prefix)
    /\ SubSeq(s, 1, Len(prefix)) = prefix

\* strings.HasSuffix(s, suffix)
HasSuffix(s, suffix) ==
    /\ Len(s) >= Len(suffix)
    /\ SubSeq(s, Len(s) - Len(suffix) + 1, Len(s)) = suffix

\* strings.TrimSuffix(s, suffix)
TrimSuffix(s, suffix) ==
    IF HasSuffix(s, suffix) THEN SubSeq(s, 1, Len(s) - Len(suffix)) ELSE s

\* strings.Contains(s, c) for a one-character c
ContainsChar(s, c) == \E i \in 1..Len(s) : s[i] = c

\* strings.Index(s, c) for a one-character c, 1-based, 0 when absent
IndexChar(s, c) ==
    IF ContainsChar(s, c) THEN CHOOSE i \in 1..Len(s) :
                                   s[i] = c /\ \A j \in 1..(i - 1) : s[j] # c
                          ELSE 0

\* strings.LastIndex(s, c) for a one-character c, 1-based, 0 when absent
LastIndexChar(s, c) ==
    IF ContainsChar(s, c) THEN CHOOSE i \in 1..Len(s) :
                                   s[i] = c /\ \A j \in (i + 1)..Len(s) : s[j] # c
                          ELSE 0

(***************************************************************************)
(* path.Clean, as the standard library computes it: one pass over the path  *)
(* with a read index r, the output written so far and the index dotdot      *)
(* below which the output may not be backed up.                             *)
(***************************************************************************)
RECURSIVE BackUp(_, _)
\* out.w-- ; for out.w > dotdot && out[out.w] != '/' { out.w-- }
BackUp(out, dotdot) ==
    IF Len(out) > dotdot /\ out[Len(out)] # "/"
        THEN BackUp(SubSeq(out, 1, Len(out) - 1), dotdot)
        ELSE out

RECURSIVE CopyElem(_, _, _)
\* for ; r < n && path[r] != '/'; r++ { out.append(path[r]) }
CopyElem(p, r, out) ==
    IF r <= Len(p) /\ p[r] # "/"
        THEN CopyElem(p, r + 1, Append(out, p[r]))
        ELSE [r |-> r, out |-> out]

RECURSIVE CleanLoop(_, _, _, _, _)
CleanLoop(p, rooted, r, out, dotdot) ==
    IF r > Len(p)
        THEN (IF out = <<>> THEN <<".">> ELSE out)
    ELSE IF p[r] = "/"
        THEN CleanLoop(p, rooted, r + 1, out, dotdot)
    ELSE IF p[r] = "." /\ (r = Len(p) \/ p[r + 1] = "/")
        THEN CleanLoop(p, rooted, r + 1, out, dotdot)
    ELSE IF /\ p[r] = "."
            /\ r + 1 <= Len(p)
            /\ p[r + 1] = "."
            /\ (r + 1 = Len(p) \/ p[r + 2] = "/")
        THEN IF Len(out) > dotdot
                 THEN CleanLoop(p, rooted, r + 2,
                                BackUp(SubSeq(out, 1, Len(out) - 1), dotdot), dotdot)
             ELSE IF ~rooted
                 THEN LET o == (IF Len(out) > 0 THEN Append(out, "/") ELSE out)
                               \o <<".", ".">>
                      IN CleanLoop(p, rooted, r + 2, o, Len(o))
             ELSE CleanLoop(p, rooted, r + 2, out, dotdot)
    ELSE LET sep == IF (rooted /\ Len(out) # 1) \/ (~rooted /\ Len(out) # 0)
                        THEN Append(out, "/") ELSE out
             c == CopyElem(p, r, sep)
         IN CleanLoop(p, rooted, c.r, c.out, dotdot)

\* path.Clean(p)
Clean(p) ==
    IF p = <<>> THEN <<".">>
    ELSE IF p[1] = "/" THEN CleanLoop(p, TRUE, 2, <<"/">>, 1)
    ELSE CleanLoop(p, FALSE, 1, <<>>, 0)

(***************************************************************************)
(* ThrottleRule.matchesPath                                                 *)
(***************************************************************************)
MatchesPathNoSeparator(PathPattern, reqPath) ==
    LET cleanPath == Clean(reqPath)
    IN IF PathPattern = <<>> THEN TRUE
       ELSE IF ContainsChar(PathPattern, "*")
           THEN HasPrefix(cleanPath, TrimSuffix(PathPattern, <<"/", "*">>))
       ELSE cleanPath = Clean(PathPattern)

matchesPath(PathPattern, reqPath) ==
    LET cleanPath == Clean(reqPath)
    IN IF PathPattern = <<>> THEN TRUE
       ELSE IF ContainsChar(PathPattern, "*")
           THEN LET pattern == TrimSuffix(PathPattern, <<"/", "*">>)
                IN HasPrefix(cleanPath \o <<"/">>, pattern \o <<"/">>)
       ELSE cleanPath = Clean(PathPattern)

(***************************************************************************)
(* net.ParseIP, net.ParseCIDR and IPNet.Contains for IPv4.  An address is   *)
(* its four octets; NoIP is the nil net.IP that ParseIP returns for a       *)
(* string that is no address.                                               *)
(***************************************************************************)
NoIP == <<>>

NoNet == [ok |-> FALSE, ip |-> NoIP, bits |-> 0]

RECURSIVE Pow2(_)
Pow2(n) == IF n = 0 THEN 1 ELSE 2 * Pow2(n - 1)

RECURSIVE Dtoi(_, _)
\* the decimal value of the digit string s, acc being the value read so far
Dtoi(s, acc) ==
    IF s = <<>> THEN acc ELSE Dtoi(Tail(s), acc * 10 + DigitVal(Head(s)))

\* one dotted-quad field: 1 to 3 digits, no leading zero, at most 255; -1 otherwise
ParseOctet(f) ==
    IF /\ Len(f) \in 1..3
       /\ \A i \in 1..Len(f) : IsDigit(f[i])
       /\ (Len(f) > 1 => f[1] # "0")
       /\ Dtoi(f, 0) <= 255
        THEN Dtoi(f, 0)
        ELSE -1

RECURSIVE SplitChar(_, _)
\* strings.Split(s, c) for a one-character c
SplitChar(s, c) ==
    LET i == IndexChar(s, c)
    IN IF i = 0 THEN <<s>>
       ELSE <<SubSeq(s, 1, i - 1)>> \o SplitChar(Drop(s, i + 1), c)

\* net.ParseIP(s)
ParseIP(s) ==
    LET fields == SplitChar(s, ".")
    IN IF Len(fields) = 4 /\ \A i \in 1..4 : ParseOctet(fields[i]) >= 0
           THEN [i \in 1..4 |-> ParseOctet(fields[i])]
           ELSE NoIP

\* the number of mask bits that fall in octet i of a /bits prefix mask
OctetBits(bits, i) ==
    LET left == bits - 8 * (i - 1)
    IN IF left <= 0 THEN 0 ELSE IF left >= 8 THEN 8 ELSE left

\* octet & mask[i], the mask being the /bits prefix mask
MaskOctet(octet, bits, i) ==
    LET low == Pow2(8 - OctetBits(bits, i))
    IN (octet \div low) * low

\* net.ParseCIDR(s): the network (address masked by the prefix) or an error
ParseCIDR(s) ==
    LET i == IndexChar(s, "/")
        addr == ParseIP(SubSeq(s, 1, i - 1))
        mask == Drop(s, i + 1)
        n == Dtoi(mask, 0)
    IN IF /\ i > 0
          /\ addr # NoIP
          /\ Len(mask) \in 1..2
          /\ \A j \in 1..Len(mask) : IsDigit(mask[j])
          /\ n <= 32
           THEN [ok |-> TRUE, ip |-> [j \in 1..4 |-> MaskOctet(addr[j], n, j)], bits |-> n]
           ELSE NoNet

\* (*net.IPNet).Contains(ip): false for the nil IP
Contains(ipNet, ip) ==
    /\ ip # NoIP
    /\ \A i \in 1..4 :
           MaskOctet(ipNet.ip[i], ipNet.bits, i) = MaskOctet(ip[i], ipNet.bits, i)

\* net.SplitHostPort(hostport), the host alone: "" when the split fails
SplitHost(hostport) ==
    LET i == LastIndexChar(hostport, ":")
        host == SubSeq(hostport, 1, i - 1)
    IN IF i = 0 \/ ContainsChar(host, ":") THEN <<>> ELSE host

(***************************************************************************)
(* strings.NewReplacer("%{ip}", ip, "%{path}", reqPath).Replace(Key): one   *)
(* pass over Key, the first placeholder that matches at a position is       *)
(* replaced and the replacement is not scanned again.                       *)
(***************************************************************************)
IpHolder == <<"%", "{", "i", "p", "}">>

PathHolder == <<"%", "{", "p", "a", "t", "h", "}">>

RECURSIVE Replace(_, _, _)
Replace(s, ip, reqPath) ==
    IF s = <<>> THEN <<>>
    ELSE IF HasPrefix(s, IpHolder)
        THEN ip \o Replace(Drop(s, Len(IpHolder) + 1), ip, reqPath)
    ELSE IF HasPrefix(s, PathHolder)
        THEN reqPath \o Replace(Drop(s, Len(PathHolder) + 1), ip, reqPath)
    ELSE <<Head(s)>> \o Replace(Tail(s), ip, reqPath)

(***************************************************************************)
(* RedisRackAttack.clientIP: the first entry of X-Forwarded-For when the    *)
(* header is set, the host of RemoteAddr otherwise.                         *)
(***************************************************************************)
clientIP(req) ==
    IF req.xff # <<>> THEN SplitChar(req.xff, ",")[1]
    ELSE SplitHost(req.remoteAddr)

(***************************************************************************)
(* Bounds of the model                                                      *)
(***************************************************************************)
\* the largest value a Redis counter is driven to
MaxCount == 3

\* the ticks for which the age of a counter is followed
MaxAge == 1

\* the most rules and the most CIDR ranges that are registered
MaxRules == 1

MaxCIDRs == 1

\* the longest rule list of a configured instance
MaxRuleList == 2

\* the longest request path matchesPath is called on
MaxPathLen == 4

(***************************************************************************)
(* The goroutines.  One goroutine configures the instance while another     *)
(* serves requests (Spec); two goroutines serve requests concurrently       *)
(* against an instance configured before (SpecThrottle).                    *)
(***************************************************************************)
Configurers == {"main"}

Handlers == {"h1"}

ConcurrentHandlers == {"h1", "h2"}

(***************************************************************************)
(* State.  The four configuration collections are the fields of            *)
(* RedisRackAttack; redis is the key space of the Redis server behind       *)
(* redisClient, a counter and its time to live (-1: none, as Redis reports  *)
(* it) per live key; g is the position and the locals of every goroutine.   *)
(* window follows, for every live key, facts the server does not keep: the  *)
(* ticks since the set-expiry step of the call that created it ended (-1    *)
(* until then), the number of increments since it was created, the counts   *)
(* those increments returned and the calls it let through.  crashed is the  *)
(* Go runtime having ended the process.                                     *)
(***************************************************************************)
VARIABLES safelistIPs, blocklistIPs, blocklistCIDRs, throttleRules,
          redis, window, g, crashed, probe

config == <<safelistIPs, blocklistIPs, blocklistCIDRs, throttleRules>>

store == <<redis, window>>

\* the process being alive, and the one rule a direct call of matchesPath is
\* made on
rest == <<crashed, probe>>

vars == <<safelistIPs, blocklistIPs, blocklistCIDRs, throttleRules,
          redis, window, g, crashed, probe>>

Threads == DOMAIN g

NoReq == [xff |-> <<>>, remoteAddr |-> <<>>, path |-> <<>>, method |-> ""]

NoRet == [throttled |-> FALSE, err |-> "nil", line |-> 0]

NoPre == [safe |-> FALSE, blocked |-> FALSE]

NoProbe == [PathPattern |-> <<>>, reqPath |-> <<>>, called |-> FALSE, matched |-> FALSE]

\* a goroutine outside every call.  req, snap, idx and count are the locals
\* req, the ranged-over slice, the loop index and count of IsThrottled; ret is
\* what the last call returned and the line that returned it.  The other
\* fields record the call's history: pre, whether the client was safelisted
\* and blocked as the call was entered; evald, the rules whose INCR was
\* issued; ord, the place of the last INCR among those of its key's window;
\* failedAt, the rule whose INCR failed; expLost, a failed EXPIRE; over, the
\* rules whose INCR returned more than their limit; cidr, the string that
\* BlocklistCIDR was called with.
Idle == [pc |-> "idle", req |-> NoReq, arg |-> <<>>, snap |-> <<>>,
         idx |-> 0, count |-> 0, ret |-> NoRet,
         pre |-> NoPre, evald |-> {}, ord |-> 0, failedAt |-> 0, expLost |-> FALSE,
         over |-> {}, cidr |-> <<>>]

\* New(redisClient), the instance being used by the goroutines of the set T
InitFor(T) ==
    /\ safelistIPs = {}
    /\ blocklistIPs = {}
    /\ blocklistCIDRs = <<>>
    /\ throttleRules = <<>>
    /\ redis = <<>>
    /\ window = <<>>
    /\ g = [t \in T |-> Idle]
    /\ crashed = FALSE
    /\ probe = NoProbe

Init == InitFor(Configurers \cup Handlers)

Free(t) == ~crashed /\ g[t].pc \in {"idle", "done"}

At(t, pc) == ~crashed /\ g[t].pc = pc

\* the goroutine's record as a call returns (throttled, err) at a source line
Returned(rec, throttled, err, line) ==
    [rec EXCEPT !.pc = "done",
                !.ret = [throttled |-> throttled, err |-> err, line |-> line]]

(***************************************************************************)
(* The views of a collection that a read can return.  No lock orders the    *)
(* accesses, so a read that runs while another goroutine is inside a write  *)
(* of the same collection returns the collection before or after that write. *)
(***************************************************************************)
Writers(t, pc) == {u \in Threads \ {t} : g[u].pc = pc}

SafelistViews(t) ==
    {safelistIPs} \cup {safelistIPs \cup {g[u].arg} : u \in Writers(t, "SafelistIP")}

BlocklistViews(t) ==
    {blocklistIPs} \cup {blocklistIPs \cup {g[u].arg} : u \in Writers(t, "BlocklistIP")}

CIDRViews(t) ==
    {blocklistCIDRs} \cup {Append(g[u].snap, g[u].arg) : u \in Writers(t, "BlocklistCIDR")}

RuleViews(t) ==
    {throttleRules} \cup {Append(g[u].snap, g[u].arg) : u \in Writers(t, "AddThrottleRule")}

(***************************************************************************)
(* The configuration mutators.  Each is a step that enters the write (an    *)
(* append reads the slice it appends to) and a step that completes it.      *)
(***************************************************************************)
SafelistIP(t, ip) ==
    /\ Free(t)
    /\ g' = [g EXCEPT ![t] = [Idle EXCEPT !.pc = "SafelistIP", !.arg = ip]]
    /\ UNCHANGED <<config, store, rest>>

SafelistIPDone(t) ==
    /\ At(t, "SafelistIP")
    /\ safelistIPs' = safelistIPs \cup {g[t].arg}
    /\ g' = [g EXCEPT ![t] = Returned(Idle, FALSE, "nil", 112)]
    /\ UNCHANGED <<blocklistIPs, blocklistCIDRs, throttleRules, store, rest>>

BlocklistIP(t, ip) ==
    /\ Free(t)
    /\ g' = [g EXCEPT ![t] = [Idle EXCEPT !.pc = "BlocklistIP", !.arg = ip]]
    /\ UNCHANGED <<config, store, rest>>

BlocklistIPDone(t) ==
    /\ At(t, "BlocklistIP")
    /\ blocklistIPs' = blocklistIPs \cup {g[t].arg}
    /\ g' = [g EXCEPT ![t] = Returned(Idle, FALSE, "nil", 117)]
    /\ UNCHANGED <<safelistIPs, blocklistCIDRs, throttleRules, store, rest>>

\* the error of net.ParseCIDR left unread
BlocklistCIDRUnchecked(t, cidr) ==
    /\ Free(t)
    /\ g' = [g EXCEPT ![t] = [Idle EXCEPT !.pc = "BlocklistCIDR", !.cidr = cidr,
                                          !.arg = ParseCIDR(cidr),
                                          !.snap = blocklistCIDRs]]
    /\ UNCHANGED <<config, store, rest>>

BlocklistCIDR(t, cidr) ==
    /\ Free(t)
    /\ LET ipNet == ParseCIDR(cidr)
       IN g' = [g EXCEPT ![t] =
                  IF ~ipNet.ok
                      THEN Returned([Idle EXCEPT !.cidr = cidr], FALSE, "cidr", 123)
                      ELSE [Idle EXCEPT !.pc = "BlocklistCIDR", !.cidr = cidr,
                                        !.arg = ipNet, !.snap = blocklistCIDRs]]
    /\ UNCHANGED <<config, store, rest>>

BlocklistCIDRDone(t) ==
    /\ At(t, "BlocklistCIDR")
    /\ blocklistCIDRs' = Append(g[t].snap, g[t].arg)
    /\ g' = [g EXCEPT ![t] = Returned([Idle EXCEPT !.cidr = g[t].cidr], FALSE, "nil", 126)]
    /\ UNCHANGED <<safelistIPs, blocklistIPs, throttleRules, store, rest>>

AddThrottleRule(t, rule) ==
    /\ Free(t)
    /\ g' = [g EXCEPT ![t] = [Idle EXCEPT !.pc = "AddThrottleRule", !.arg = rule,
                                          !.snap = throttleRules]]
    /\ UNCHANGED <<config, store, rest>>

AddThrottleRuleDone(t) ==
    /\ At(t, "AddThrottleRule")
    /\ throttleRules' = Append(g[t].snap, g[t].arg)
    /\ g' = [g EXCEPT ![t] = Returned(Idle, FALSE, "nil", 132)]
    /\ UNCHANGED <<safelistIPs, blocklistIPs, blocklistCIDRs, store, rest>>

(***************************************************************************)
(* The Redis commands the pipeline issues, and the passing of time on the   *)
(* server.  INCR creates an absent key at 1 with no time to live; EXPIRE    *)
(* on a live key sets its time to live, and deletes the key when the time   *)
(* is not positive; a key whose time to live runs out is deleted.           *)
(***************************************************************************)
Live(r) == DOMAIN r

Min(a, b) == IF a < b THEN a ELSE b

\* SETNX key 1 followed by GET key, in the place of INCR
RedisSetIfAbsent(r, key) ==
    IF key \in DOMAIN r
        THEN r
        ELSE [k \in DOMAIN r \cup {key} |->
                 IF k = key THEN [count |-> 1, ttl |-> -1] ELSE r[k]]

\* INCR key
RedisIncr(r, key) ==
    IF key \in Live(r)
        THEN [r EXCEPT ![key].count = @ + 1]
        ELSE [k \in Live(r) \cup {key} |->
                 IF k = key THEN [count |-> 1, ttl |-> -1] ELSE r[k]]

\* EXPIRE key seconds
RedisExpire(r, key, period) ==
    IF key \notin Live(r) THEN r
    ELSE IF period <= 0 THEN [k \in Live(r) \ {key} |-> r[k]]
    ELSE [r EXCEPT ![key].ttl = period]

\* one tick of the server's clock
RedisTick(r) ==
    [k \in {x \in Live(r) : r[x].ttl # 1} |->
        [r[k] EXCEPT !.ttl = IF @ = -1 THEN -1 ELSE @ - 1]]

\* window after an INCR of key that returned count
WindowIncr(w, key, count) ==
    IF key \in DOMAIN w
        THEN [w EXCEPT ![key].calls = @ + 1, ![key].seen = @ \cup {count}]
        ELSE [k \in DOMAIN w \cup {key} |->
                 IF k = key THEN [age |-> -1, calls |-> 1, seen |-> {count},
                                  allowed |-> 0]
                            ELSE w[k]]

\* window after the set-expiry step of a call on key, r being the keys left
WindowExpire(w, r, key) ==
    [k \in Live(r) |->
        IF k = key /\ w[k].age = -1 THEN [w[k] EXCEPT !.age = 0] ELSE w[k]]

\* window after a tick that leaves the keys of r
WindowTick(w, r) ==
    [k \in Live(r) |->
        [w[k] EXCEPT !.age = IF @ = -1 THEN -1 ELSE Min(@ + 1, MaxAge)]]

\* window after a call that passed the limit check of key returned (false, nil)
WindowAllow(w, key) ==
    IF key \in DOMAIN w THEN [w EXCEPT ![key].allowed = @ + 1] ELSE w

(***************************************************************************)
(* What it is for an address to be blocked, said without the code: the      *)
(* string is in the blocklist, or the first bits of the address it denotes  *)
(* are those of a blocked network.                                          *)
(***************************************************************************)
\* bit j (1 the highest, 32 the lowest) of an address
AddrBit(octets, j) ==
    (octets[((j - 1) \div 8) + 1] \div Pow2(7 - ((j - 1) % 8))) % 2

InNetwork(ipNet, addr) ==
    /\ addr # NoIP
    /\ \A j \in 1..ipNet.bits : AddrBit(addr, j) = AddrBit(ipNet.ip, j)

Denied(blocklist, cidrs, ip) ==
    \/ ip \in blocklist
    \/ \E i \in 1..Len(cidrs) : InNetwork(cidrs[i], ParseIP(ip))

(***************************************************************************)
(* IsBlocked and the pieces of IsThrottled                                  *)
(***************************************************************************)
\* the safelist consulted for the clients the blocklist does not name
SafelistedUnlessBlocked(safelist, ip) == ip \in safelist /\ ip \notin blocklistIPs

\* ra.safelistIPs[ip]
Safelisted(safelist, ip) == ip \in safelist

\* the blocklist consulted and the CIDR ranges left out
IsBlockedExactOnly(blocklist, cidrs, ip) == ip \in blocklist

\* IsBlocked(ip) over the blocklist and the CIDR ranges it reads
IsBlocked(blocklist, cidrs, ip) ==
    IF ip \in blocklist THEN TRUE
    ELSE LET parsedIP == ParseIP(ip)
         IN \E i \in 1..Len(cidrs) : Contains(cidrs[i], parsedIP)

\* the condition under which the loop of IsThrottled evaluates rule
Matches(rule, req) ==
    matchesPath(rule.PathPattern, req.path) /\ req.method = rule.Method

\* the Redis key of rule for the request
RenderKey(rule, ip, reqPath) == Replace(rule.Key, ip, reqPath)

\* the limit itself taken for a breach
OverLimitInclusive(count, rule) == count >= rule.Limit

\* int(count) > rule.Limit
OverLimit(count, rule) == count > rule.Limit

\* the indices from..Len(rules) of the rules that match req
MatchingFrom(rules, req, from) ==
    {i \in from..Len(rules) : Matches(rules[i], req)}

SetMin(S) == CHOOSE x \in S : \A y \in S : x <= y

\* the loop moves on to the first matching rule at or after from, or ends
Advance(rec, from) ==
    LET m == MatchingFrom(rec.snap, rec.req, from)
    IN IF m = {} THEN Returned(rec, FALSE, "nil", 190)
       ELSE [rec EXCEPT !.pc = "incr", !.idx = SetMin(m)]

CurRule(rec) == rec.snap[rec.idx]

CurKey(rec) == RenderKey(CurRule(rec), clientIP(rec.req), rec.req.path)

\* the time to live set again by every call
NeedsExpireAlways(count) == TRUE

\* line 181: count == 1
NeedsExpire(count) == count = 1

\* the failed rule skipped and the loop continued
OnIncrErrorContinue(rec) == Advance(rec, rec.idx + 1)

\* lines 177-179
OnIncrError(rec) == Returned(rec, FALSE, "redis", 178)

\* the first matching rule alone decides
CompareFirstOnly(rec) ==
    IF OverLimit(rec.count, CurRule(rec)) THEN Returned(rec, TRUE, "nil", 186)
    ELSE Returned(rec, FALSE, "nil", 190)

\* a breach returns only from the last matching rule
CompareLastOnly(rec) ==
    IF OverLimit(rec.count, CurRule(rec)) /\ MatchingFrom(rec.snap, rec.req, rec.idx + 1) = {}
        THEN Returned(rec, TRUE, "nil", 186)
        ELSE Advance(rec, rec.idx + 1)

\* lines 185-187, and the next turn of the loop
Compare(rec) ==
    IF OverLimit(rec.count, CurRule(rec)) THEN Returned(rec, TRUE, "nil", 186)
    ELSE Advance(rec, rec.idx + 1)

\* window once the goroutine's record old has become rec: a call that returns
\* (false, nil) from the end of the loop is counted on the key it passed last
Account(w, old, rec) ==
    IF rec.pc = "done" /\ rec.ret.line = 190 THEN WindowAllow(w, CurKey(old)) ELSE w

(***************************************************************************)
(* IsThrottled, one action per access to shared state                      *)
(***************************************************************************)
\* lines 153-155: the call is entered with its request
IsThrottled(t, req) ==
    /\ Free(t)
    /\ g' = [g EXCEPT ![t] =
               [Idle EXCEPT !.pc = "safelist", !.req = req,
                            !.pre = [safe |-> clientIP(req) \in safelistIPs,
                                     blocked |-> Denied(blocklistIPs, blocklistCIDRs,
                                                        clientIP(req))]]]
    /\ UNCHANGED <<config, store, rest>>

\* lines 157-159
CheckSafelist(t) ==
    /\ At(t, "safelist")
    /\ \E view \in SafelistViews(t) :
           g' = [g EXCEPT ![t] =
                   IF Safelisted(view, clientIP(g[t].req))
                       THEN Returned(@, FALSE, "nil", 158)
                       ELSE [@ EXCEPT !.pc = "blocked"]]
    /\ UNCHANGED <<config, store, rest>>

\* the denials counted in the store, a counter per client
CheckBlockedCounted(t) ==
    /\ At(t, "blocked")
    /\ \E bl \in BlocklistViews(t), cl \in CIDRViews(t) :
           LET ip == clientIP(g[t].req)
               hit == IsBlocked(bl, cl, ip)
               r == IF hit THEN RedisIncr(redis, ip) ELSE redis
           IN /\ g' = [g EXCEPT ![t] = IF hit THEN Returned(@, TRUE, "nil", 162)
                                              ELSE [@ EXCEPT !.pc = "rules"]]
              /\ redis' = r
              /\ window' = IF hit THEN WindowIncr(window, ip, r[ip].count) ELSE window
    /\ UNCHANGED <<config, rest>>

\* lines 161-163
CheckBlocked(t) ==
    /\ At(t, "blocked")
    /\ \E bl \in BlocklistViews(t), cl \in CIDRViews(t) :
           g' = [g EXCEPT ![t] =
                   IF IsBlocked(bl, cl, clientIP(g[t].req))
                       THEN Returned(@, TRUE, "nil", 162)
                       ELSE [@ EXCEPT !.pc = "rules"]]
    /\ UNCHANGED <<config, store, rest>>

\* line 166: range evaluates ra.throttleRules once
LoadRules(t) ==
    /\ At(t, "rules")
    /\ \E view \in RuleViews(t) :
           g' = [g EXCEPT ![t] = Advance([@ EXCEPT !.snap = view], 1)]
    /\ UNCHANGED <<config, store, rest>>

\* lines 176-187: the increment succeeds; a count of 1 leads to the set-expiry
\* step, any other count to the limit check
Incr(t) ==
    /\ At(t, "incr")
    /\ LET key == CurKey(g[t])
           r == RedisIncr(redis, key)
           w == WindowIncr(window, key, r[key].count)
           rec == [g[t] EXCEPT !.count = r[key].count, !.ord = w[key].calls,
                               !.evald = @ \cup {g[t].idx},
                               !.over = IF r[key].count > CurRule(g[t]).Limit
                                            THEN @ \cup {g[t].idx} ELSE @]
           next == IF NeedsExpire(rec.count) THEN [rec EXCEPT !.pc = "expire"]
                                    ELSE Compare(rec)
       IN /\ r[key].count <= MaxCount
          /\ redis' = r
          /\ window' = Account(w, rec, next)
          /\ g' = [g EXCEPT ![t] = next]
    /\ UNCHANGED <<config, rest>>

\* lines 176-179: the increment fails and leaves the server as it was
IncrFail(t) ==
    /\ At(t, "incr")
    /\ g' = [g EXCEPT ![t] = OnIncrError([@ EXCEPT !.evald = @ \cup {g[t].idx},
                                                   !.failedAt = g[t].idx])]
    /\ UNCHANGED <<config, store, rest>>

\* lines 181-187 for count == 1: the time to live is set
Expire(t) ==
    /\ At(t, "expire")
    /\ LET key == CurKey(g[t])
           r == RedisExpire(redis, key, CurRule(g[t]).Period)
           next == Compare(g[t])
       IN /\ redis' = r
          /\ window' = Account(WindowExpire(window, r, key), g[t], next)
          /\ g' = [g EXCEPT ![t] = next]
    /\ UNCHANGED <<config, rest>>

\* lines 181-187 for count == 1: the command fails, its result is dropped
ExpireFail(t) ==
    /\ At(t, "expire")
    /\ LET key == CurKey(g[t])
           next == Compare([g[t] EXCEPT !.expLost = TRUE])
       IN /\ window' = Account(WindowExpire(window, redis, key), g[t], next)
          /\ g' = [g EXCEPT ![t] = next]
    /\ UNCHANGED <<config, redis, rest>>

\* time passes on the Redis server
Tick ==
    /\ ~crashed
    /\ redis' = RedisTick(redis)
    /\ window' = WindowTick(window, redis')
    /\ UNCHANGED <<config, g, rest>>

(***************************************************************************)
(* Unsynchronised accesses                                                  *)
(***************************************************************************)
Collections == {"safelistIPs", "blocklistIPs", "blocklistCIDRs", "throttleRules"}

Writing(t, c) ==
    \/ c = "safelistIPs" /\ g[t].pc = "SafelistIP"
    \/ c = "blocklistIPs" /\ g[t].pc = "BlocklistIP"
    \/ c = "blocklistCIDRs" /\ g[t].pc = "BlocklistCIDR"
    \/ c = "throttleRules" /\ g[t].pc = "AddThrottleRule"

Reading(t, c) ==
    \/ c = "safelistIPs" /\ g[t].pc = "safelist"
    \/ c \in {"blocklistIPs", "blocklistCIDRs"} /\ g[t].pc = "blocked"
    \/ c = "throttleRules" /\ g[t].pc = "rules"

\* two goroutines are at accesses of one collection, one of them a write
DataRace ==
    \E c \in Collections : \E t, u \in Threads :
        t # u /\ Writing(t, c) /\ (Writing(u, c) \/ Reading(u, c))

\* the runtime ends the process on an access it finds racing
Fatal ==
    /\ ~crashed
    /\ DataRace
    /\ crashed' = TRUE
    /\ UNCHANGED <<config, store, g, probe>>

(***************************************************************************)
(* The inputs                                                               *)
(***************************************************************************)
\* "10.0.0.5" and "10.0.1.5": inside and outside 10.0.0.0/24
IpA == <<"1", "0", ".", "0", ".", "0", ".", "5">>

IpB == <<"1", "0", ".", "0", ".", "1", ".", "5">>

Port == <<":", "8", "0">>

\* "10.0.0.0/24", and "10.0.0.0", which is no CIDR notation
CidrA == <<"1", "0", ".", "0", ".", "0", ".", "0", "/", "2", "4">>

CidrBad == <<"1", "0", ".", "0", ".", "0", ".", "0">>

\* "10.0.0.0/33": a prefix longer than the address
Cidr33 == <<"1", "0", ".", "0", ".", "0", ".", "0", "/", "3", "3">>

\* "t:%{ip}" and "u:%{ip}"
KeyT == <<"t", ":">> \o IpHolder

KeyU == <<"u", ":">> \o IpHolder

Rule(method, key, limit, period) ==
    [PathPattern |-> <<>>, Method |-> method, Key |-> key,
     Limit |-> limit, Period |-> period]

Request(ip, reqPath, method) ==
    [xff |-> <<>>, remoteAddr |-> ip \o Port, path |-> reqPath, method |-> method]

(***************************************************************************)
(* Spec: an instance that goroutines configure while others serve requests  *)
(***************************************************************************)
SafeArgs == {IpA}

BlockArgs == {IpA}

\* the arguments of BlocklistCIDR that are no CIDR notation
MalformedCIDRs == {CidrBad, Cidr33}

CIDRArgs == {CidrA} \cup MalformedCIDRs

\* a rule left to every method as the README describes it, and the same rule
\* for GET
RuleArgs == {Rule("", KeyT, 1, 1), Rule("GET", KeyT, 1, 1)}

Requests == {Request(IpA, <<"/">>, "GET"), Request(IpB, <<"/">>, "POST")}

Configure(t) ==
    \/ \E ip \in SafeArgs : SafelistIP(t, ip)
    \/ SafelistIPDone(t)
    \/ \E ip \in BlockArgs : BlocklistIP(t, ip)
    \/ BlocklistIPDone(t)
    \/ \E cidr \in CIDRArgs :
           /\ Len(blocklistCIDRs) < MaxCIDRs \/ cidr \in MalformedCIDRs
           /\ BlocklistCIDR(t, cidr)
    \/ BlocklistCIDRDone(t)
    \/ \E rule \in RuleArgs : Len(throttleRules) < MaxRules /\ AddThrottleRule(t, rule)
    \/ AddThrottleRuleDone(t)

Serve(t) ==
    \/ CheckSafelist(t)
    \/ CheckBlocked(t)
    \/ LoadRules(t)
    \/ Incr(t)
    \/ IncrFail(t)
    \/ Expire(t)
    \/ ExpireFail(t)

Next ==
    \/ \E t \in Configurers : Configure(t)
    \/ \E t \in Handlers : \E req \in Requests : IsThrottled(t, req)
    \/ \E t \in Handlers : Serve(t)
    \/ Tick
    \/ Fatal

Spec == Init /\ [][Next]_vars

(***************************************************************************)
(* SpecThrottle: requests served concurrently by an instance whose rules    *)
(* were registered before                                                   *)
(***************************************************************************)
\* a rule for GET, and a tighter rule for GET on a key of its own and with a
\* period twice as long
ThrottleRuleArgs == {Rule("GET", KeyT, 2, 1), Rule("GET", KeyU, 1, 2)}

\* the rule lists of at most n of these rules
RuleListsUpTo(n) == UNION {[1..m -> ThrottleRuleArgs] : m \in 0..n}

RuleLists == RuleListsUpTo(MaxRuleList)

ThrottleRequests == {Request(IpA, <<"/">>, "GET")}

\* the instance after the rules of the list rules were registered
InitWith(lists) ==
    /\ safelistIPs = {}
    /\ blocklistIPs = {}
    /\ blocklistCIDRs = <<>>
    /\ throttleRules \in lists
    /\ redis = <<>>
    /\ window = <<>>
    /\ g = [t \in ConcurrentHandlers |-> Idle]
    /\ crashed = FALSE
    /\ probe = NoProbe

InitThrottle == InitWith(RuleListsUpTo(MaxRules))

NextThrottle ==
    \/ \E t \in ConcurrentHandlers : \E req \in ThrottleRequests : IsThrottled(t, req)
    \/ \E t \in ConcurrentHandlers : Serve(t)
    \/ Tick

SpecThrottle == InitThrottle /\ [][NextThrottle]_vars

\* the same, with time passing on the server and every goroutine that is
\* inside a call going on with it; which store commands fail is left open
SpecThrottleFair ==
    /\ SpecThrottle
    /\ WF_vars(Tick)
    /\ \A t \in ConcurrentHandlers : WF_vars(Serve(t))

(***************************************************************************)
(* SpecRules: the same goroutines and an instance with several rules, the   *)
(* requests served within one period                                        *)
(***************************************************************************)
InitRules == InitWith(RuleLists)

NextRules ==
    \/ \E t \in ConcurrentHandlers : \E req \in ThrottleRequests : IsThrottled(t, req)
    \/ \E t \in ConcurrentHandlers : Serve(t)

SpecRules == InitRules /\ [][NextRules]_vars

(***************************************************************************)
(* SpecKeys: the strings that reach the instance unvalidated, as they are   *)
(* looked up in the blocklist and rendered into keys                        *)
(***************************************************************************)
\* BlocklistIP("")
KeyBlockArgs == {<<>>}

\* a request whose RemoteAddr is "10.0.0.5", without a port
NoPortRequest == [Request(IpA, <<"/">>, "POST") EXCEPT !.remoteAddr = IpA]

\* "k:%{ip}%{path}"
KeyIpPath == <<"k", ":">> \o IpHolder \o PathHolder

\* a rule of limit 1 on that key, and a rule whose limit is 0
KeyRuleArgs == {Rule("GET", KeyIpPath, 1, 1), Rule("GET", KeyT, 0, 1)}

\* "/a" and its respelling "//a"
PathA == <<"/", "a">>

PathSlashA == <<"/", "/", "a">>

\* a request that carries X-Forwarded-For: 10.0.0.5/
ForwardedRequest == [Request(IpB, PathA, "GET") EXCEPT !.xff = IpA \o <<"/">>]

KeyRequests == {Request(IpA, PathA, "GET"), Request(IpA, PathSlashA, "GET"),
                ForwardedRequest, NoPortRequest}

NextKeys ==
    \/ \E t \in Configurers : \E rule \in KeyRuleArgs :
           Len(throttleRules) < MaxRules /\ AddThrottleRule(t, rule)
    \/ \E t \in Configurers : AddThrottleRuleDone(t)
    \/ \E t \in Configurers : \E ip \in KeyBlockArgs : BlocklistIP(t, ip)
    \/ \E t \in Configurers : BlocklistIPDone(t)
    \/ \E t \in Handlers : \E req \in KeyRequests : IsThrottled(t, req)
    \/ \E t \in Handlers : Serve(t)
    \/ Tick
    \/ Fatal

SpecKeys == Init /\ [][NextKeys]_vars

(***************************************************************************)
(* SpecPath: matchesPath called on one rule and one request path            *)
(***************************************************************************)
Api == <<"/", "a", "p", "i">>

\* "", "/a", "/a/", "/a//b", "/a/*", "/a/b/*", "/*", "/api" and "/api/*"
ProbePatterns ==
    {<<>>, <<"/", "a">>, <<"/", "a", "/">>, <<"/", "a", "/", "/", "b">>,
     <<"/", "a", "/", "*">>, <<"/", "a", "/", "b", "/", "*">>, <<"/", "*">>,
     Api, Api \o <<"/", "*">>}

\* "/api", "/api/", "/api/x", "/api/x/y", "/apiextra" and "/other"
ApiPaths ==
    {Api, Api \o <<"/">>, Api \o <<"/", "x">>, Api \o <<"/", "x", "/", "y">>,
     Api \o <<"e", "x", "t", "r", "a">>, <<"/", "o", "t", "h", "e", "r">>}

PathAlphabet == {"/", "a", "b", "."}

ProbePaths == ApiPaths \cup UNION {[1..n -> PathAlphabet] : n \in 0..MaxPathLen}

InitPath ==
    /\ safelistIPs = {}
    /\ blocklistIPs = {}
    /\ blocklistCIDRs = <<>>
    /\ throttleRules = <<>>
    /\ redis = <<>>
    /\ window = <<>>
    /\ g = <<>>
    /\ crashed = FALSE
    /\ probe \in {[NoProbe EXCEPT !.PathPattern = p, !.reqPath = q] :
                     p \in ProbePatterns, q \in ProbePaths}

\* rule.matchesPath(reqPath)
MatchesPathCall ==
    /\ ~probe.called
    /\ probe' = [probe EXCEPT !.called = TRUE,
                              !.matched = matchesPath(probe.PathPattern, probe.reqPath)]
    /\ UNCHANGED <<config, store, g, crashed>>

SpecPath == InitPath /\ [][MatchesPathCall]_vars

(***************************************************************************)
(* The properties                                                           *)
(***************************************************************************)
Allowed(rec) == rec.ret.throttled = FALSE /\ rec.ret.err = "nil"

Throttled(rec) == rec.ret.throttled = TRUE /\ rec.ret.err = "nil"

\* some rule of the instance has the client of rec over its limit
CounterOverLimit(rec) ==
    \E i \in 1..Len(throttleRules) :
        LET key == RenderKey(throttleRules[i], clientIP(rec.req), rec.req.path)
        IN key \in Live(redis) /\ redis[key].count > throttleRules[i].Limit

\* C1: a call of IsThrottled entered for a client that is in the safelist does
\* nothing but the safelist check and returns (false, nil) from it, whatever
\* the blocklist, the CIDR ranges, the rules and the counters are.
SafelistPrecedence ==
    \A t \in Threads :
        g[t].pre.safe =>
            \/ g[t].pc = "safelist"
            \/ g[t].pc = "done" /\ Allowed(g[t]) /\ g[t].ret.line = 158

\* a safelisted client that is blocklisted too and over a rule's limit has
\* been answered
SafelistedBlockedOverLimitServed ==
    \E t \in Threads :
        /\ g[t].pc = "done"
        /\ g[t].pre.safe
        /\ g[t].pre.blocked
        /\ clientIP(g[t].req) \in blocklistIPs
        /\ CounterOverLimit(g[t])

\* the client of rec is safelisted, or is being safelisted by a running call
MaybeSafelisted(t) == \E view \in SafelistViews(t) : clientIP(g[t].req) \in view

\* the client of rec is blocked, or is being blocked by a running call
MaybeDenied(t) ==
    \E bl \in BlocklistViews(t), cl \in CIDRViews(t) : Denied(bl, cl, clientIP(g[t].req))

\* C2: a call entered for a client that is blocked (its address in the
\* blocklist or inside a blocked range) and is not safelisted returns
\* (true, nil) from the blocklist step whatever the rules and counters are;
\* and the blocklist step denies no client that is outside the blocklist and
\* outside every blocked range.
BlocklistDenies ==
    \A t \in Threads :
        /\ (g[t].pre.blocked /\ ~MaybeSafelisted(t)) =>
               \/ g[t].pc \in {"safelist", "blocked"}
               \/ g[t].pc = "done" /\ Throttled(g[t]) /\ g[t].ret.line = 162
        /\ (g[t].pc = "done" /\ g[t].ret.line = 162) => MaybeDenied(t)

\* a client inside a blocked range and outside the blocklist, and not
\* safelisted, has been denied by an instance that has rules
RangeDenied ==
    /\ \E t \in Threads :
           /\ g[t].pc = "done"
           /\ g[t].ret.line = 162
           /\ clientIP(g[t].req) \notin blocklistIPs
           /\ ~MaybeSafelisted(t)
    /\ blocklistCIDRs # <<>>
    /\ throttleRules # <<>>

\* the calls that went through the loop of an instance with one rule, that
\* rule matching the request and its INCR answered
OneRuleCall(t) ==
    /\ g[t].pc = "done"
    /\ Len(throttleRules) = 1
    /\ g[t].evald = {1}
    /\ g[t].failedAt = 0

\* C3: with one registered rule of limit L that matches the request, the
\* calls whose increments are the first L on a key since it was absent return
\* (false, nil), and the call whose increment is the next one on that key
\* before it expires returns (true, nil).
ThrottleAtLimit ==
    \A t \in Threads :
        OneRuleCall(t) =>
            /\ g[t].ord <= throttleRules[1].Limit =>
                   Allowed(g[t]) /\ g[t].ret.line = 190
            /\ g[t].ord > throttleRules[1].Limit =>
                   Throttled(g[t]) /\ g[t].ret.line = 186

\* a rule of limit 2: the second call on the key was let through and the
\* third was throttled
ThirdCallThrottled ==
    \E t, u \in Threads :
        /\ OneRuleCall(t) /\ OneRuleCall(u)
        /\ throttleRules[1].Limit = 2
        /\ g[t].ord = 2 /\ Allowed(g[t])
        /\ g[u].ord = 3 /\ Throttled(g[u])

\* C4: once the period of a rule has gone by since a counter's window was
\* opened (here: since the call that created the counter ended its set-expiry
\* step), the counter is gone, so that the next call starts a new window.
CounterGoneAfterPeriod ==
    \A k \in Live(redis) :
        Len(throttleRules) = 1 => window[k].age < throttleRules[1].Period

\* the rule's method and path agree with the request as the documentation
\* has it: an empty method stands for every method
DocumentedMatch(rule, req) ==
    /\ matchesPath(rule.PathPattern, req.path)
    /\ (rule.Method = "" \/ rule.Method = req.method)

\* C5: a call that runs the loop to its end has evaluated (issued the INCR of)
\* exactly the rules whose path pattern matches and whose method is empty or
\* equal to the request's method.
EmptyMethodMatchesAll ==
    \A t \in Threads :
        (g[t].pc = "done" /\ g[t].ret.line = 190) =>
            \A i \in 1..Len(g[t].snap) :
                i \in g[t].evald <=> DocumentedMatch(g[t].snap[i], g[t].req)

\* C6: whatever the interleaving of the calls, the increments of a key since
\* its creation returned the distinct counts 1..n, n being their number and
\* the counter's value, and with one rule of limit L at most L of the calls
\* on a key returned (false, nil) before it expired.
NoLostIncrement ==
    \A k \in Live(redis) :
        /\ window[k].seen = 1..window[k].calls
        /\ redis[k].count = window[k].calls
        /\ Len(throttleRules) = 1 => window[k].allowed <= throttleRules[1].Limit

\* a call incremented a key while the call that created it was between its
\* INCR and its EXPIRE, and the limit's worth of calls was let through
ConcurrentIncrements ==
    \E t, u \in Threads :
        /\ Len(throttleRules) = 1
        /\ g[t].pc = "expire"
        /\ g[u].pc = "done" /\ g[u].ord = 3 /\ Throttled(g[u])
        /\ CurKey(g[t]) \in Live(redis)
        /\ redis[CurKey(g[t])].count = 3

\* C7: a call whose INCR failed has returned (false, err) with a non-nil err
\* from that rule: it is nowhere else in the loop, and it issued no INCR for a
\* rule after the failed one.
IncrFailureSurfaced ==
    \A t \in Threads :
        g[t].failedAt # 0 =>
            /\ g[t].pc = "done"
            /\ g[t].ret = [throttled |-> FALSE, err |-> "redis", line |-> 178]
            /\ g[t].idx = g[t].failedAt
            /\ \A i \in g[t].evald : i <= g[t].failedAt

\* the INCR of the first of two matching rules failed
FirstOfTwoRulesFailed ==
    \E t \in Threads :
        /\ g[t].failedAt = 1
        /\ Cardinality(MatchingFrom(g[t].snap, g[t].req, 1)) = 2

\* C8: a call whose EXPIRE failed returns throttled=false with a non-nil
\* error.
ExpireFailureSurfaced ==
    \A t \in Threads :
        (g[t].pc = "done" /\ g[t].expLost) =>
            g[t].ret.throttled = FALSE /\ g[t].ret.err # "nil"

\* C9: no two goroutines are ever at accesses of the same configuration
\* collection of which one is a write.
NoDataRace == ~DataRace

SlashStar == <<"/", "*">>

\* the path's normal form is prefix, or lies under prefix
AtOrUnder(reqPath, prefix) ==
    \/ Clean(reqPath) = prefix
    \/ HasPrefix(Clean(reqPath), prefix \o <<"/">>)

\* C10: matchesPath answers true for every path when the pattern is empty;
\* for a pattern P + "/*" exactly when the path's normal form is P or begins
\* with P + "/"; for a pattern without wildcard exactly when the path's
\* normal form is the pattern's normal form.  So /api/* matches /api, /api/,
\* /api/x and /api/x/y, and neither /apiextra nor /other.
PathMatchingAsDocumented ==
    probe.called =>
        LET pat == probe.PathPattern
            q == probe.reqPath
        IN /\ pat = <<>> => probe.matched
           /\ HasSuffix(pat, SlashStar) =>
                  (probe.matched <=> AtOrUnder(q, TrimSuffix(pat, SlashStar)))
           /\ (pat # <<>> /\ ~ContainsChar(pat, "*")) =>
                  (probe.matched <=> Clean(q) = Clean(pat))
           /\ pat = Api \o SlashStar =>
                  (probe.matched <=>
                      q \in {Api, Api \o <<"/">>, Api \o <<"/", "x">>,
                             Api \o <<"/", "x", "/", "y">>})

\* matchesPath has refused /apiextra for the pattern /api/*
ApiExtraRefused ==
    /\ probe.called
    /\ probe.PathPattern = Api \o SlashStar
    /\ probe.reqPath = Api \o <<"e", "x", "t", "r", "a">>
    /\ ~probe.matched

\* the rules of the call's rule list that match its request
MatchingRules(rec) == MatchingFrom(rec.snap, rec.req, 1)

\* a call that left the loop of an instance with rules, every INCR answered
LoopCall(t) ==
    /\ g[t].pc = "done"
    /\ g[t].ret.line \in {186, 190}
    /\ g[t].evald # {}

\* C11: a call whose increments were all answered returns (true, nil) exactly
\* when the increment of some matching rule, taken in registration order,
\* returned more than that rule's limit, the first rule or a later one; it
\* returns (false, nil) only after every matching rule was incremented and
\* none returned more than its limit.
AnyBreachThrottles ==
    \A t \in Threads :
        LoopCall(t) =>
            /\ Throttled(g[t]) <=> g[t].over # {}
            /\ Allowed(g[t]) <=> g[t].over = {}
            /\ Allowed(g[t]) => g[t].evald = MatchingRules(g[t])
            /\ g[t].evald \subseteq MatchingRules(g[t])

\* the second of two matching rules was over its limit while the first was
\* not, and the call was throttled
SecondRuleThrottled ==
    \E t \in Threads :
        /\ LoopCall(t)
        /\ Cardinality(MatchingRules(g[t])) = 2
        /\ g[t].over = {2}
        /\ Throttled(g[t])

\* limit >= 1 and period > 0
ValidRule(rule) == rule.Limit >= 1 /\ rule.Period > 0

\* C12: a rule with a limit below 1 or a period that is not positive is not
\* in the rule list, or it is inert: no call issues an INCR for it, so that it
\* leaves no counter in the store, and no call returns (true, nil) from it.
InvalidRuleIsNoOp ==
    \A t \in Handlers :
        /\ \A i \in g[t].evald : ValidRule(g[t].snap[i])
        /\ (g[t].pc = "done" /\ g[t].ret.line = 186) => ValidRule(CurRule(g[t]))

\* goroutine t returns from a call at line in this step
Returns(t, line) ==
    /\ g'[t] # g[t]
    /\ g'[t].pc = "done"
    /\ g'[t].ret.line = line

\* C13: BlocklistCIDR called with a malformed notation returns an error and
\* the safelist, the blocklist, the CIDR ranges and the rules are after the
\* call what they were before it; called with a well-formed notation it
\* returns nil and the CIDR ranges are those of before with one range, the
\* network of the notation, appended, the rest of the configuration unchanged.
CIDRRejectedOrAppended ==
    /\ [](\A t \in Threads :
             /\ g[t].cidr \in MalformedCIDRs =>
                    g[t].pc = "done" /\ g[t].ret.err # "nil" /\ g[t].ret.line = 123
             /\ (g[t].cidr \in CIDRArgs \ MalformedCIDRs /\ g[t].pc = "done") =>
                    g[t].ret.err = "nil" /\ g[t].ret.line = 126)
    /\ [][\A t \in Threads :
             /\ (At(t, "BlocklistCIDR") /\ g'[t] # g[t]) => Returns(t, 126)
             /\ Returns(t, 123) => config' = config
             /\ Returns(t, 126) =>
                    /\ blocklistCIDRs' = Append(blocklistCIDRs, ParseCIDR(g'[t].cidr))
                    /\ ParseCIDR(g'[t].cidr).ok
                    /\ UNCHANGED <<safelistIPs, blocklistIPs, throttleRules>>]_vars

\* a malformed notation was refused by an instance that held a range, and the
\* range is still the only one
MalformedCIDRRefused ==
    \E t \in Threads :
        /\ g[t].pc = "done"
        /\ g[t].cidr = Cidr33
        /\ g[t].ret.err # "nil"
        /\ Len(blocklistCIDRs) = 1
        /\ safelistIPs # {}

\* the client IP of the call is no IP address
Unparseable(rec) == rec.req # NoReq /\ ParseIP(clientIP(rec.req)) = NoIP

\* C14: a call whose client IP string is no IP address (the empty string of
\* an unparseable remote address among them) returns neither from the
\* safelist step nor from the blocklist step, whatever the safelist, the
\* blocklist and the CIDR ranges hold.
UnparseableClientPasses ==
    \A t \in Threads :
        (g[t].pc = "done" /\ Unparseable(g[t])) => g[t].ret.line \notin {158, 162}

\* the step gives key k a time to live, or a longer one
TTLRaised(k) ==
    /\ k \in Live(redis) /\ k \in Live(redis')
    /\ redis'[k].ttl > redis[k].ttl

\* C15: only a call whose increment returned 1 is at the set-expiry step, and
\* the time to live of a key is set or raised by that call alone, in its
\* set-expiry step, and once in the life of the key; a call whose increment
\* returned more than 1, allowed or throttled, leaves the time to live as it
\* is.
ExpirySetOnceByFirst ==
    /\ [](\A t \in Threads : g[t].pc = "expire" => g[t].count = 1)
    /\ [][\A k \in Live(redis) :
             TTLRaised(k) =>
                 /\ window[k].age = -1
                 /\ \E t \in Threads :
                        /\ g[t].pc = "expire" /\ g'[t] # g[t]
                        /\ g[t].count = 1
                        /\ CurKey(g[t]) = k]_vars

\* the third call on a key was throttled and the key has the time to live the
\* first call gave it
ThrottledCallLeftExpiry ==
    \E t \in Threads :
        /\ g[t].pc = "done" /\ Throttled(g[t]) /\ g[t].count = 3
        /\ CurKey(g[t]) \in Live(redis)
        /\ redis[CurKey(g[t])].ttl = CurRule(g[t]).Period
        /\ window[CurKey(g[t])].age = 0

\* the keys the registered rules render for the requests served
CounterKeys ==
    {RenderKey(rule, clientIP(req), req.path) :
        rule \in ThrottleRuleArgs, req \in ThrottleRequests}

\* C16: in every execution, those with failing store commands included, a
\* counter that is in the store is later gone from it, removed by the expiry
\* of its time to live.
CountersExpire ==
    \A k \in CounterKeys : (k \in Live(redis)) ~> (k \notin Live(redis))

\* the step counts once on key k and leaves every other counter as it is
CountedOnce(k) ==
    /\ k \in Live(redis')
    /\ redis'[k].count = IF k \in Live(redis) THEN redis[k].count + 1 ELSE 1
    /\ \A j \in Live(redis') \ {k} : j \in Live(redis) /\ redis'[j].count = redis[j].count

\* the step leaves every counter as it is and creates none
CountsKept ==
    \A j \in Live(redis') : j \in Live(redis) /\ redis'[j].count = redis[j].count

\* the key of rule i of the call's rule list
KeyOf(rec, i) == RenderKey(rec.snap[i], clientIP(rec.req), rec.req.path)

\* C17: a call that returns (true, nil) from matching rule i has issued one
\* INCR for each matching rule up to i, in registration order, the one of
\* rule i alone having returned more than the limit, and none for a rule
\* after i; and a call changes the counters by its INCRs alone, each counting
\* once on the key of its rule, so that the counters of the rules after i
\* are as the call found them.
StopsAtFirstBreach ==
    /\ [](\A t \in Threads :
             (g[t].pc = "done" /\ g[t].ret.line = 186) =>
                 /\ Throttled(g[t])
                 /\ g[t].evald = {j \in MatchingRules(g[t]) : j <= g[t].idx}
                 /\ g[t].over = {g[t].idx})
    /\ [][\A t \in Threads :
             g'[t] # g[t] =>
                 IF g[t].pc = "incr"
                     THEN /\ g[t].idx \notin g[t].evald
                          /\ \A j \in g[t].evald : j < g[t].idx
                          /\ redis' = redis \/ CountedOnce(CurKey(g[t]))
                     ELSE CountsKept]_vars

\* the first of two matching rules was over its limit: the call was
\* throttled and the counter of the second rule is where the call before
\* left it
FirstBreachSkipsSecond ==
    \E t \in Threads :
        /\ g[t].pc = "done" /\ g[t].ret.line = 186
        /\ g[t].idx = 1
        /\ MatchingRules(g[t]) = {1, 2}
        /\ KeyOf(g[t], 1) # KeyOf(g[t], 2)
        /\ KeyOf(g[t], 2) \in Live(redis)
        /\ redis[KeyOf(g[t], 2)].count = 1
        /\ redis[KeyOf(g[t], 1)].count = 2

\* the positions of a goroutine inside IsThrottled
InIsThrottled == {"safelist", "blocked", "rules", "incr", "expire"}

\* C18: a call that returns from the safelist step or from the blocklist
\* step has issued no INCR and its steps left the store as it was: no counter
\* created, incremented or given an expiry; and no step of IsThrottled changes
\* the safelist, the blocklist, the CIDR ranges or the rules.
EarlyExitLeavesStore ==
    /\ [](\A t \in Threads :
             (g[t].pc = "done" /\ g[t].ret.line \in {158, 162}) => g[t].evald = {})
    /\ [][\A t \in Threads :
             g'[t] # g[t] =>
                 /\ (g'[t].pc = "safelist" \/ g[t].pc \in {"safelist", "blocked"}) =>
                        redis' = redis
                 /\ (g'[t].pc = "safelist" \/ g[t].pc \in InIsThrottled) =>
                        config' = config]_vars

\* a blocked client was denied by an instance with a rule that matches its
\* request, and the rule's counter for the client does not exist
BlockedClientNotCounted ==
    \E t \in Threads :
        /\ g[t].pc = "done" /\ g[t].ret.line = 162
        /\ \E i \in 1..Len(throttleRules) :
               /\ Matches(throttleRules[i], g[t].req)
               /\ RenderKey(throttleRules[i], clientIP(g[t].req), g[t].req.path)
                      \notin Live(redis)

\* what counter k has let through, while the period that began with it runs
AllowedOn(k, rule) ==
    IF k \in Live(redis) /\ window[k].age < rule.Period THEN window[k].allowed ELSE 0

\* C19: for the requests of one client that match a rule and whose paths
\* have the same normal form, /a and //a, the calls the rule lets through in
\* one period are at most its limit, whatever the key template is.
RespellingSharesBudget ==
    \A i \in 1..Len(throttleRules) :
        LET rule == throttleRules[i]
            k1 == RenderKey(rule, IpA, PathA)
            k2 == RenderKey(rule, IpA, PathSlashA)
        IN (Clean(PathA) = Clean(PathSlashA) /\ Len(throttleRules) = 1) =>
               (IF k1 = k2 THEN AllowedOn(k1, rule)
                           ELSE AllowedOn(k1, rule) + AllowedOn(k2, rule)) <= rule.Limit

\* the key template holds the placeholder %{ip}
HasIpHolder(key) == \E j \in 1..Len(key) : HasPrefix(Drop(key, j), IpHolder)

\* the step leaves counter k as it is, absent or at its count
CounterKept(k) ==
    /\ k \in Live(redis) <=> k \in Live(redis')
    /\ k \in Live(redis) => redis'[k].count = redis[k].count

\* C20: for a rule whose key template holds %{ip}, the INCR of a call made
\* for one client IP leaves alone the counter that the rule uses for every
\* request of a different client IP.
ClientsIsolated ==
    [][\A t \in Threads :
          (g'[t] # g[t] /\ g[t].pc = "incr") =>
              \A req \in KeyRequests :
                  (HasIpHolder(CurRule(g[t]).Key) /\ clientIP(req) # clientIP(g[t].req)) =>
                      CounterKept(RenderKey(CurRule(g[t]), clientIP(req), req.path))]_vars

====
